---- MODULE Spec2Model ----
(***************************************************************************)
(* Model of the shopping cart of src/script.js: the classes Product,       *)
(* ShoppingCartItem and ShoppingCart, the catalog `products`, the view     *)
(* function updateCartUI and the two UI entry points window.addToCart and  *)
(* window.removeFromCart.                                                  *)
(*                                                                         *)
(* Prices and totals are JavaScript Numbers, IEEE 754 doubles.  A double x *)
(* is the record [c, d] with x = c/100 + d/(25 * 2^47): c whole cents and  *)
(* a deviation d in units of 2^-47/25.  Every double that is a multiple of *)
(* 2^-47 has such a record with d an integer, and it is unique while       *)
(* |d| < 2^30; the products and sums below are the exact results rounded   *)
(* to the nearest double, ties to even, as the code's * and + are, for     *)
(* every amount whose cents fit a 32-bit integer (below 21,474,836.48).    *)
(* toFixed(2) is modelled by what it produces: the sign, the integer part  *)
(* and the two decimal digits.                                             *)
(***************************************************************************)
EXTENDS Integers, Sequences, FiniteSets

\* Bounds of the model: how many products of the catalog (its first ones) the
\* callers use, and the largest quantity a line may reach (the code bounds
\* neither).
MaxProducts == 3
MaxQuantity == 2

------------------------------------------------------------------------------
\* class Product: constructor(id, name, price)
Product(id, name, price) == [id |-> id, name |-> name, price |-> price]

\* class ShoppingCartItem: constructor(product, quantity)
ShoppingCartItem(product, quantity) == [product |-> product, quantity |-> quantity]

\* a Number: c/100 + d/(25 * 2^47)
Double(c, d) == [c |-> c, d |-> d]

\* the records of Numbers
Numbers == [c : Int, d : Int]

\* the Number 0 (the initial value of the reduce, and price * 0)
Zero == Double(0, 0)

Pow2(n) == 2 ^ n

\* x < 0
IsNegative(x) == x.c < 0 \/ (x.c = 0 /\ x.d < 0)

\* -x
Negate(x) == Double(0 - x.c, 0 - x.d)

\* a >= 2^e, for a >= 0 (the deviation is far below a cent)
AtLeastPow2(a, e) ==
    a.c > 100 * Pow2(e) \/ (a.c = 100 * Pow2(e) /\ a.d >= 0)

\* the binary exponent of a >= 0 less 5, at least 0: the doubles around a
\* are 2^k * 2^-47 apart, that is 25 * 2^k units of d.  The cents of a
\* record are below 2^31 < 100 * 2^25, so no a reaches 2^25 and k <= 19
GridExponent(a) == Cardinality({k \in 1..19 : AtLeastPow2(a, k + 5)})

\* a exactly, in units of d, modulo 25 * 2^k: a = c * 2^45 + d units, and
\* c * 2^45 mod (25 * 2^k) = 2^k * ((c * 2^(45-k)) mod 25); 2^20 mod 25 = 1
UnitsMod(a, k) ==
    LET m == ((a.c % 25) * (Pow2((45 - k) % 20) % 25)) % 25
    IN  (Pow2(k) * m + a.d) % (25 * Pow2(k))

\* the exact value x rounded to the nearest double, ties to even: what
\* every arithmetic operation of the code does to its exact result
RoundToDouble[x \in Numbers] ==
    LET a == IF IsNegative(x) THEN Negate(x) ELSE x
        k == GridExponent(a)
        G == 25 * Pow2(k)
        r == UnitsMod(a, k)
        even == UnitsMod(a, k + 1) = r
        down == Double(a.c, a.d - r)
        up == Double(a.c, a.d - r + G)
        n == IF 2 * r < G THEN down
             ELSE IF 2 * r > G THEN up
             ELSE IF even THEN down ELSE up
    IN  IF IsNegative(x) THEN Negate(n) ELSE n

\* x + y on Numbers
Plus(x, y) == RoundToDouble[Double(x.c + y.c, x.d + y.d)]

\* x * q on Numbers, q an integer
Times(x, q) == RoundToDouble[Double(x.c * q, x.d * q)]

\* calculateTotal() with the quantity forgotten
calculateTotal_PriceOnly(item) == item.product.price

\* ShoppingCartItem.calculateTotal()
calculateTotal(item) == Times(item.product.price, item.quantity)

\* const products = [...]: the mock database; each price is the double its
\* literal denotes (999.99 is 999.99 + 32/(25 * 2^47), 249.50 is exact)
products ==
    << Product(1, "Laptop", Double(99999, 32)),
       Product(2, "Smartphone", Double(59999, 32)),
       Product(3, "Headphones", Double(19999, 32)),
       Product(4, "Smart Watch", Double(24950, 0)),
       Product(5, "Tablet", Double(39900, 0)),
       Product(6, "Keyboard", Double(4999, 7)) >>

\* this.items.reduce((total, item) => total + item.calculateTotal(), 0):
\* a left fold from the initial value, item by item
RECURSIVE reduce(_, _, _)
reduce(its, i, total) ==
    IF i > Len(its) THEN total
    ELSE reduce(its, i + 1, Plus(total, calculateTotal(its[i])))

\* ShoppingCart.getTotal()
getTotal(its) == reduce(its, 1, Zero)

\* Array.prototype.find with the predicate elem.id === id, on a sequence of
\* ids: the index of the first match, 0 for undefined
find(ids, id) ==
    IF \E i \in 1..Len(ids) : ids[i] = id
    THEN CHOOSE i \in 1..Len(ids) :
            /\ ids[i] = id
            /\ \A j \in 1..(i - 1) : ids[j] # id
    ELSE 0

\* the ids of the lines of a cart, in order
ItemIds(its) == [i \in 1..Len(its) |-> its[i].product.id]

\* the ids of the catalog, in order
CatalogIds == [i \in 1..Len(products) |-> products[i].id]

\* addItem without the lookup of an existing line: always a new line
addItem_AlwaysPush(its, args) ==
    Append(its, ShoppingCartItem(args[1], IF Len(args) >= 2 THEN args[2] ELSE 1))

\* addItem assigning the quantity of an existing line instead of adding to it
addItem_Overwrite(its, args) ==
    LET product == args[1]
        quantity == IF Len(args) >= 2 THEN args[2] ELSE 1
        existingItem == find(ItemIds(its), product.id)
    IN  IF existingItem # 0
        THEN [its EXCEPT ![existingItem].quantity = quantity]
        ELSE Append(its, ShoppingCartItem(product, quantity))

\* addItem putting a new line first (unshift for push)
addItem_Prepend(its, args) ==
    LET product == args[1]
        quantity == IF Len(args) >= 2 THEN args[2] ELSE 1
        existingItem == find(ItemIds(its), product.id)
    IN  IF existingItem # 0
        THEN [its EXCEPT ![existingItem].quantity = @ + quantity]
        ELSE << ShoppingCartItem(product, quantity) >> \o its

\* addItem with the default quantity 0
addItem_DefaultZero(its, args) ==
    LET product == args[1]
        quantity == IF Len(args) >= 2 THEN args[2] ELSE 0
        existingItem == find(ItemIds(its), product.id)
    IN  IF existingItem # 0
        THEN [its EXCEPT ![existingItem].quantity = @ + quantity]
        ELSE Append(its, ShoppingCartItem(product, quantity))

\* addItem replacing an existing line by a new one at the end
addItem_MoveToEnd(its, args) ==
    LET product == args[1]
        quantity == IF Len(args) >= 2 THEN args[2] ELSE 1
        existingItem == find(ItemIds(its), product.id)
    IN  IF existingItem # 0
        THEN Append(SelectSeq(its, LAMBDA item : item.product.id # product.id),
                    ShoppingCartItem(product, its[existingItem].quantity + quantity))
        ELSE Append(its, ShoppingCartItem(product, quantity))

\* ShoppingCart.addItem(product, quantity = 1); args is the argument list,
\* <<product>> or <<product, quantity>>
addItem(its, args) ==
    LET product == args[1]
        quantity == IF Len(args) >= 2 THEN args[2] ELSE 1
        existingItem == find(ItemIds(its), product.id)
    IN  IF existingItem # 0
        THEN [its EXCEPT ![existingItem].quantity = @ + quantity]
        ELSE Append(its, ShoppingCartItem(product, quantity))

\* removeItem by splice(findIndex(...), 1): index -1 removes the last line
removeItem_Splice(its, productId) ==
    LET i == find(ItemIds(its), productId)
        k == IF i # 0 THEN i ELSE Len(its)
    IN  [j \in 1..(IF Len(its) = 0 THEN 0 ELSE Len(its) - 1) |->
            IF j < k THEN its[j] ELSE its[j + 1]]

\* ShoppingCart.removeItem(productId)
removeItem(its, productId) ==
    SelectSeq(its, LAMBDA item : item.product.id # productId)

\* Number.prototype.toFixed(2): "-" if x < 0, then the integer n nearest to
\* |x| * 100 written with two decimals; "-12.05" is the sign, the integer
\* part 12 and the decimals 05.  The deviation being below half a cent
\* (2^44 units), n is the cents of |x|; a tiny negative x gives "-0.00"
toFixed(x) ==
    LET a == IF IsNegative(x) THEN Negate(x) ELSE x
    IN  [neg |-> IsNegative(x), int |-> a.c \div 100, frac |-> a.c % 100]

\* displayCart without the test for the empty cart
displayCart_NoEmptyCheck(its) ==
    << [kind |-> "text", text |-> "--- Current Cart ---"] >>
    \o [i \in 1..Len(its) |->
           [kind |-> "line", name |-> its[i].product.name,
            quantity |-> its[i].quantity,
            total |-> toFixed(calculateTotal(its[i]))]]
    \o << [kind |-> "total", total |-> toFixed(getTotal(its))] >>

\* ShoppingCart.displayCart(): the lines it logs to the console
displayCart(its) ==
    IF Len(its) = 0
    THEN << [kind |-> "text", text |-> "The cart is empty."] >>
    ELSE << [kind |-> "text", text |-> "--- Current Cart ---"] >>
         \o [i \in 1..Len(its) |->
                [kind |-> "line", name |-> its[i].product.name,
                 quantity |-> its[i].quantity,
                 total |-> toFixed(calculateTotal(its[i]))]]
         \o << [kind |-> "total", total |-> toFixed(getTotal(its))] >>

------------------------------------------------------------------------------
VARIABLES
    items,          \* myCart.items
    cartItemsHTML,  \* children of the element "cart-items"
    totalPriceText, \* innerText of the element "total-price"
    consoleLog,     \* what the latest call logged to the console
    lastCall,       \* the latest call: operation, id, lookup result, return value
    added,          \* per product id: quantities passed to addItem since the id was last absent
    order           \* product ids in the order of their first addItem since their last removeItem

vars == << items, cartItemsHTML, totalPriceText, consoleLog, lastCall, added, order >>
dom == << cartItemsHTML, totalPriceText >>

Call(op, id, found, ret) == [op |-> op, id |-> id, found |-> found, ret |-> ret]

\* the state after `const myCart = new ShoppingCart()` and renderProducts():
\* the cart is empty and nothing has been rendered into the cart elements
Init ==
    /\ items = << >>
    /\ cartItemsHTML = << >>
    /\ totalPriceText = << >>
    /\ consoleLog = << >>
    /\ lastCall = Call("new", 0, FALSE, Zero)
    /\ added = [id \in {products[i].id : i \in 1..Len(products)} |-> 0]
    /\ order = << >>

\* updateCartUI(): the full redraw of the cart elements from the cart its,
\* ending with the console display
updateCartUI(its) ==
    /\ cartItemsHTML' =
          IF Len(its) = 0
          THEN << [kind |-> "p", text |-> "Your cart is empty."] >>
          ELSE [i \in 1..Len(its) |->
                  [kind |-> "cart-item", name |-> its[i].product.name,
                   quantity |-> its[i].quantity,
                   total |-> toFixed(calculateTotal(its[i])),
                   removeId |-> its[i].product.id]]
    /\ totalPriceText' = << toFixed(getTotal(its)) >>
    /\ consoleLog' = displayCart(its)

\* the quantities a caller may pass to addItem: the code checks none
PositiveQuantities == 1..MaxQuantity
AnyQuantities == {-1, 0} \cup PositiveQuantities

\* the products a caller may pass
ProductArgs == {products[i] : i \in 1..MaxProducts}

\* the ids a caller may pass: those products', and 0, which no product has
IdArgs == {0} \cup {p.id : p \in ProductArgs}

\* the explored part of the state space
WithinBounds(its) ==
    \A i \in 1..Len(its) : its[i].quantity \in AnyQuantities

\* the record of the calls made, kept beside the cart
NoteAdd(id, quantity) ==
    /\ added' = [added EXCEPT ![id] = @ + quantity]
    /\ order' = IF \E i \in 1..Len(order) : order[i] = id
                THEN order ELSE Append(order, id)

NoteRemove(id) ==
    /\ added' = [i \in DOMAIN added |-> IF i = id THEN 0 ELSE added[i]]
    /\ order' = SelectSeq(order, LAMBDA i : i # id)

\* a call myCart.addItem(product) or myCart.addItem(product, quantity)
AddItem(args) ==
    /\ items' = addItem(items, args)
    /\ WithinBounds(items')
    /\ lastCall' = Call("addItem", args[1].id,
                        find(ItemIds(items), args[1].id) # 0, Zero)
    /\ NoteAdd(args[1].id, IF Len(args) >= 2 THEN args[2] ELSE 1)
    /\ consoleLog' = << >>
    /\ UNCHANGED dom

\* a call myCart.removeItem(productId)
RemoveItem(productId) ==
    /\ items' = removeItem(items, productId)
    /\ lastCall' = Call("removeItem", productId,
                        find(ItemIds(items), productId) # 0, Zero)
    /\ NoteRemove(productId)
    /\ consoleLog' = << >>
    /\ UNCHANGED dom

\* a call myCart.getTotal()
GetTotal ==
    /\ lastCall' = Call("getTotal", 0, FALSE, getTotal(items))
    /\ consoleLog' = << >>
    /\ UNCHANGED << items, dom, added, order >>

\* a call myCart.displayCart()
DisplayCart ==
    /\ consoleLog' = displayCart(items)
    /\ lastCall' = Call("displayCart", 0, FALSE, Zero)
    /\ UNCHANGED << items, dom, added, order >>

\* addToCart without `if (product)`: on an empty cart addItem(undefined)
\* pushes a line without a product (find never reads product.id), on any
\* other cart it throws before changing anything
AddToCart_Unguarded(productId) ==
    LET product == find(CatalogIds, productId)
    IN  /\ lastCall' = Call("addToCart", productId, product # 0, Zero)
        /\ IF product # 0
           THEN /\ items' = addItem(items, << products[product] >>)
                /\ WithinBounds(items')
                /\ NoteAdd(productId, 1)
                /\ updateCartUI(items')
           ELSE /\ items' = IF items = << >>
                            THEN << ShoppingCartItem(Product(0, "undefined", Zero), 1) >>
                            ELSE items
                /\ consoleLog' = << >>
                /\ UNCHANGED << dom, added, order >>

\* window.addToCart(productId)
AddToCart(productId) ==
    LET product == find(CatalogIds, productId)
    IN  /\ lastCall' = Call("addToCart", productId, product # 0, Zero)
        /\ IF product # 0
           THEN /\ items' = addItem(items, << products[product] >>)
                /\ WithinBounds(items')
                /\ NoteAdd(productId, 1)
                /\ updateCartUI(items')
           ELSE /\ consoleLog' = << >>
                /\ UNCHANGED << items, dom, added, order >>

\* removeFromCart without the call of updateCartUI
RemoveFromCart_NoRender(productId) ==
    /\ items' = removeItem(items, productId)
    /\ lastCall' = Call("removeFromCart", productId,
                        find(ItemIds(items), productId) # 0, Zero)
    /\ NoteRemove(productId)
    /\ consoleLog' = << >>
    /\ UNCHANGED dom

\* window.removeFromCart(productId)
RemoveFromCart(productId) ==
    /\ items' = removeItem(items, productId)
    /\ lastCall' = Call("removeFromCart", productId,
                        find(ItemIds(items), productId) # 0, Zero)
    /\ NoteRemove(productId)
    /\ updateCartUI(items')

------------------------------------------------------------------------------
\* The cart called directly, with any quantity.
Next ==
    \/ \E p \in ProductArgs, q \in AnyQuantities : AddItem(<< p, q >>)
    \/ \E p \in ProductArgs : AddItem(<< p >>)
    \/ \E id \in IdArgs : RemoveItem(id)
    \/ GetTotal
    \/ DisplayCart

Spec == Init /\ [][Next]_vars

\* The cart called directly, every quantity a positive integer.
NextPositive ==
    \/ \E p \in ProductArgs, q \in PositiveQuantities : AddItem(<< p, q >>)
    \/ \E p \in ProductArgs : AddItem(<< p >>)
    \/ \E id \in IdArgs : RemoveItem(id)
    \/ GetTotal
    \/ DisplayCart

SpecPositive == Init /\ [][NextPositive]_vars

\* The page: the cart is reached through the two UI entry points only.
NextUI ==
    \/ \E id \in IdArgs : AddToCart(id)
    \/ \E id \in IdArgs : RemoveFromCart(id)

SpecUI == Init /\ [][NextUI]_vars

------------------------------------------------------------------------------
\* Properties.

\* the positions of the lines of its for product id
LinesOf(its, id) == {i \in 1..Len(its) : its[i].product.id = id}

\* the lines of its for the products other than id, in order
OtherLines(its, id) == SelectSeq(its, LAMBDA item : item.product.id # id)

\* the sum of price * quantity over the lines of its, as Numbers: the sum of
\* the lines before the last, plus the last line's price * quantity
RECURSIVE SumOfSubtotals(_)
SumOfSubtotals(its) ==
    IF Len(its) = 0 THEN Zero
    ELSE Plus(SumOfSubtotals(SubSeq(its, 1, Len(its) - 1)),
              Times(its[Len(its)].product.price, its[Len(its)].quantity))

\* the sum of price * quantity over the lines at the positions S, in whole
\* cents of the decimal prices
RECURSIVE CentsOver(_, _)
CentsOver(its, S) ==
    IF S = {} THEN 0
    ELSE LET i == CHOOSE j \in S : TRUE
         IN  its[i].product.price.c * its[i].quantity + CentsOver(its, S \ {i})

\* the cart elements have been drawn at least once
Rendered == cartItemsHTML # << >>

\* the latest call drew the cart elements
RenderedNow ==
    \/ lastCall.op = "removeFromCart"
    \/ lastCall.op = "addToCart" /\ lastCall.found

\* C1: in every state reachable from the empty cart by addItem and removeItem
\* calls, the cart holds at most one line per product id.
C1_OneLinePerProduct ==
    \A i, j \in 1..Len(items) :
        items[i].product.id = items[j].product.id => i = j

\* a repeated addItem for a product, with another product in the cart
C1_Witness ==
    /\ lastCall.op = "addItem"
    /\ lastCall.found
    /\ Len(items) >= 2

\* C2: for every product id added since it was last absent from the cart, the
\* cart holds exactly one line for it, and that line's quantity is the sum of
\* the quantities passed to those addItem calls (1 for a call without one).
C2_QuantityIsSumAdded ==
    \A k \in 1..Len(order) :
        /\ Cardinality(LinesOf(items, order[k])) = 1
        /\ \A i \in LinesOf(items, order[k]) : items[i].quantity = added[order[k]]

\* a product added more than once, the quantities summing to MaxQuantity
C2_Witness ==
    /\ lastCall.op = "addItem"
    /\ lastCall.found
    /\ added[lastCall.id] = MaxQuantity
    /\ LinesOf(items, lastCall.id) # {}

\* C3: addItem for a product id not in the cart makes the cart one line longer,
\* the new line being the last one, for that product, with the quantity
\* passed, after the former lines; addItem for an id in the cart leaves the
\* number of lines unchanged.
C3_AddItemLineCount ==
    [][lastCall'.op = "addItem" =>
        IF LinesOf(items, lastCall'.id) = {}
        THEN /\ Len(items') = Len(items) + 1
             /\ SubSeq(items', 1, Len(items)) = items
             /\ items'[Len(items')].product.id = lastCall'.id
             /\ items'[Len(items')].quantity =
                    added'[lastCall'.id] - added[lastCall'.id]
        ELSE Len(items') = Len(items)]_vars

\* a new product added to a cart that already has a line
C3_Witness ==
    /\ lastCall.op = "addItem"
    /\ ~lastCall.found
    /\ Len(items) >= 2
    /\ items[Len(items)].product.id = lastCall.id

\* C4: removeItem(id) for an id in the cart makes the cart one line shorter and
\* leaves no line for that id; removeItem(id) for an id not in the cart leaves
\* the lines as they are (so a second removeItem(id) changes nothing).
C4_RemoveItem ==
    [][lastCall'.op = "removeItem" =>
        IF LinesOf(items, lastCall'.id) # {}
        THEN /\ Len(items') = Len(items) - 1
             /\ LinesOf(items', lastCall'.id) = {}
        ELSE items' = items]_vars

\* a product removed from a cart that keeps other lines
C4_Witness ==
    /\ lastCall.op = "removeItem"
    /\ lastCall.found
    /\ Len(items) >= 2
    /\ LinesOf(items, lastCall.id) = {}

\* C5: getTotal() returns the sum of price * quantity over the lines of the
\* cart (the Numbers added line by line; to the cent, the sum of the decimal
\* prices times the quantities), 0 for the empty cart, and leaves the lines
\* unchanged.
C5_GetTotal ==
    [][lastCall'.op = "getTotal" =>
        /\ items' = items
        /\ lastCall'.ret = SumOfSubtotals(items)
        /\ lastCall'.ret.c = CentsOver(items, 1..Len(items))
        /\ (Len(items) = 0 => lastCall'.ret = Zero)]_vars

\* getTotal() of the cart with two Laptops and one Headphones: the double
\* 2199.9700000000003, which is 2199.97 + 896/(25 * 2^47)
C5_Witness ==
    /\ lastCall.op = "getTotal"
    /\ Len(items) = 2
    /\ items[1].product.id = 1 /\ items[1].quantity = 2
    /\ items[2].product.id = 3 /\ items[2].quantity = 1
    /\ lastCall.ret = Double(219997, 896)

\* C6: addToCart(productId) with an id of no catalog product leaves the lines
\* of the cart unchanged; with a catalog id it adds 1 of that product: one
\* more on its line if it has one, else a new last line with quantity 1.
C6_AddToCart ==
    [][lastCall'.op = "addToCart" =>
        LET id == lastCall'.id
            inCatalog == {i \in 1..Len(products) : products[i].id = id}
        IN  IF inCatalog = {} THEN items' = items
            ELSE IF LinesOf(items, id) # {}
                 THEN /\ Len(items') = Len(items)
                      /\ \A i \in 1..Len(items) :
                            items'[i] =
                                IF items[i].product.id = id
                                THEN [items[i] EXCEPT !.quantity = @ + 1]
                                ELSE items[i]
                 ELSE \E i \in inCatalog :
                        items' = Append(items, [product |-> products[i],
                                                quantity |-> 1])]_vars

\* addToCart with an id of no product, called on a cart with lines
C6_Witness ==
    /\ lastCall.op = "addToCart"
    /\ ~lastCall.found
    /\ lastCall.id = 0
    /\ Len(items) >= 1

\* C7 as stated: whenever the cart is rendered while it has no lines, the view
\* shows the "empty" message and no total value.
C7_EmptyCartShowsNoTotal ==
    (Rendered /\ items = << >>) =>
        /\ cartItemsHTML = << [kind |-> "p", text |-> "Your cart is empty."] >>
        /\ totalPriceText = << >>
        /\ \A i \in 1..Len(consoleLog) : consoleLog[i].kind # "total"

\* C7 amended: whenever the cart is rendered while it has no lines, the
\* cart-items element holds the "empty" message alone and the rendering logs
\* the line "The cart is empty." alone, without a total line; the
\* total-price element shows the total all the same, 0.00.
C7_EmptyCartRender ==
    (Rendered /\ items = << >>) =>
        /\ cartItemsHTML = << [kind |-> "p", text |-> "Your cart is empty."] >>
        /\ RenderedNow =>
              consoleLog = << [kind |-> "text", text |-> "The cart is empty."] >>
        /\ totalPriceText = << [neg |-> FALSE, int |-> 0, frac |-> 0] >>

\* the last line of the cart removed through the page
C7_Witness ==
    /\ Rendered
    /\ items = << >>
    /\ lastCall.op = "removeFromCart"
    /\ lastCall.found

\* C8: once a UI action has changed the cart, the view is the full rendering of
\* the current cart: the displayed lines are the cart's lines, in order, with
\* their names, quantities and subtotals, and the displayed total is
\* getTotal() of the current lines to two decimals.
C8_ViewShowsCart ==
    (Rendered \/ items # << >> \/ lastCall.op = "removeFromCart"
        \/ (lastCall.op = "addToCart" /\ lastCall.found)) =>
        /\ IF items = << >>
           THEN cartItemsHTML = << [kind |-> "p", text |-> "Your cart is empty."] >>
           ELSE /\ Len(cartItemsHTML) = Len(items)
                /\ \A i \in 1..Len(items) :
                      /\ cartItemsHTML[i].kind = "cart-item"
                      /\ cartItemsHTML[i].name = items[i].product.name
                      /\ cartItemsHTML[i].quantity = items[i].quantity
                      /\ cartItemsHTML[i].total =
                            toFixed(Times(items[i].product.price,
                                          items[i].quantity))
                      /\ cartItemsHTML[i].removeId = items[i].product.id
        /\ totalPriceText = << toFixed(SumOfSubtotals(items)) >>

\* a product removed through the page from a cart that keeps a line of 2
C8_Witness ==
    /\ lastCall.op = "removeFromCart"
    /\ lastCall.found
    /\ Len(items) >= 1
    /\ items[1].quantity = 2

\* C9: when every addItem call passes a positive integer quantity (or none),
\* every line of the cart has a quantity of at least 1.
C9_QuantitiesPositive ==
    \A i \in 1..Len(items) : items[i].quantity >= 1

\* a line whose quantity was raised by a repeated addItem
C9_Witness ==
    /\ lastCall.op = "addItem"
    /\ lastCall.found
    /\ \E i \in LinesOf(items, lastCall.id) : items[i].quantity = MaxQuantity

\* C10: addItem and removeItem leave the lines for the other product ids as
\* they were, in the same order, and the lines of the cart are always in the
\* order in which their products were first added since their last removal.
C10_OtherLinesUntouched ==
    [][/\ lastCall'.op \in {"addItem", "removeItem"} =>
            OtherLines(items', lastCall'.id) = OtherLines(items, lastCall'.id)
       /\ ItemIds(items') = order']_vars

\* the first line's quantity raised while the cart is not in catalog order
C10_Witness ==
    /\ lastCall.op = "addItem"
    /\ lastCall.found
    /\ ItemIds(items) = << 2, 3, 1 >>
    /\ lastCall.id = 2

====
